---- MODULE Spec2Model ----
(***************************************************************************)
(* Model of the receipt preparation pipeline of                            *)
(* runtime/runtime/src/pipelining.rs: ReceiptPreparationPipeline::submit,  *)
(* the worker closure it hands to rayon::spawn_fifo, and                   *)
(* ReceiptPreparationPipeline::get_contract.                               *)
(*                                                                         *)
(* One main thread calls submit (&mut self) and get_contract (&self), one  *)
(* call at a time.  Every task has one worker closure, run by the pool at  *)
(* any time after it was spawned.  Every critical section on a task's      *)
(* status mutex is one atomic step.  view_config and the gas allowance     *)
(* only parametrise the gas counter handed to prepare_function_call and    *)
(* are left out.                                                           *)
(***************************************************************************)
EXTENDS Integers, Sequences, FiniteSets, TLC

\* Number of submit / get_contract calls the main thread makes.
MaxCalls == 3

(***************************************************************************)
(* The state snapshot (state_update) the pipeline reads: the accounts and  *)
(* their contract binding, and the global-contract-code trie.              *)
(***************************************************************************)
CodeHashes == {1, 2}

NoHash == 0

\* GlobalContractIdentifier::CodeHash(h)
GlobalCodeHash(h) == [kind |-> "CodeHash", hash |-> h, account |-> ""]

\* GlobalContractIdentifier::AccountId(a)
GlobalAccountId(a) == [kind |-> "AccountId", hash |-> NoHash, account |-> a]

NoGlobalId == [kind |-> "", hash |-> NoHash, account |-> ""]

\* get_pure::<Account>(state_update, TrieKey::Account): is the account there
AccountExists(a) == a # "ghost"

\* account.contract()
AccountContractOf(a) ==
    CASE a = "alice" -> [tag |-> "Local", hash |-> 1, account |-> ""]
      [] a = "bob"   -> [tag |-> "Global", hash |-> 2, account |-> ""]
      [] a = "carol" -> [tag |-> "GlobalByAccount", hash |-> NoHash, account |-> "gacc"]
      [] a = "erin"  -> [tag |-> "GlobalByAccount", hash |-> NoHash, account |-> "gmiss"]
      [] OTHER       -> [tag |-> "None", hash |-> NoHash, account |-> ""]

\* the failed lookup taken for a found entry
GlobalCodeExistsAlways(id) == TRUE

\* state_update.get_ref(TrieKey::GlobalContractCode{AccountId(id)}): found?
GlobalCodeExists(id) == id = "gacc"

\* value_ref.value_hash() of that trie entry
GlobalCodeValueHash(id) == IF id = "gacc" THEN 1 ELSE NoHash

(***************************************************************************)
(* The receipts the main thread may pass to submit and get_contract.  A    *)
(* receipt's hash is its index in Receipts.                                *)
(***************************************************************************)
Receipts ==
    << [receiver |-> "alice", kind |-> "Action",
        actions |-> <<"FunctionCall", "DeployContract", "FunctionCall">>, id |-> NoGlobalId],
       [receiver |-> "alice", kind |-> "Action",
        actions |-> <<"FunctionCall">>, id |-> NoGlobalId],
       [receiver |-> "alice", kind |-> "GlobalContractDistribution",
        actions |-> <<>>, id |-> GlobalCodeHash(2)],
       [receiver |-> "bob", kind |-> "Action",
        actions |-> <<"Transfer", "FunctionCall">>, id |-> NoGlobalId],
       [receiver |-> "bob", kind |-> "GlobalContractDistribution",
        actions |-> <<>>, id |-> GlobalAccountId("gacc")],
       [receiver |-> "carol", kind |-> "PromiseYield",
        actions |-> <<"FunctionCall", "UseGlobalContract", "FunctionCall">>, id |-> NoGlobalId],
       [receiver |-> "ghost", kind |-> "Action",
        actions |-> <<"FunctionCall">>, id |-> NoGlobalId],
       [receiver |-> "dave", kind |-> "Action",
        actions |-> <<"Delegate", "FunctionCall">>, id |-> NoGlobalId],
       [receiver |-> "erin", kind |-> "Action",
        actions |-> <<"FunctionCall">>, id |-> NoGlobalId],
       [receiver |-> "bob", kind |-> "Data",
        actions |-> <<>>, id |-> NoGlobalId],
       [receiver |-> "carol", kind |-> "PromiseResume",
        actions |-> <<>>, id |-> NoGlobalId] >>

ReceiptIds == 1..Len(Receipts)

\* action indices get_contract is called with (one past the longest list)
ActionIndices == 0..3

\* receipt.receiver_id()
ReceiverOf(r) == Receipts[r].receiver

\* ReceiptEnum::Action(a) | ReceiptEnum::PromiseYield(a)
HasActions(r) == Receipts[r].kind \in {"Action", "PromiseYield"}

\* a.actions.get(action_index)
ActionAt(r, i) ==
    IF HasActions(r) /\ i + 1 \in DOMAIN Receipts[r].actions
    THEN Receipts[r].actions[i + 1] ELSE "none"

\* PrepareTaskKey { receipt_id, action_index }
PrepareTaskKey(r, i) == <<r, i>>

\* every key of a function-call action of some receipt
FunctionCallKeys ==
    {PrepareTaskKey(r, i) : r \in ReceiptIds, i \in ActionIndices} \cap
    {k \in ReceiptIds \X ActionIndices : ActionAt(k[1], k[2]) = "FunctionCall"}

(***************************************************************************)
(* PrepareTaskStatus and the prepared contract.                            *)
(***************************************************************************)
NoContract == [box |-> <<<<0, 0>>, 0>>, code_hash |-> NoHash, account_id |-> "", by |-> ""]

\* prepare_function_call(.., gas_counter, code_hash, account_id, method_name):
\* the contract records the inputs it was built from; box names the Box the
\* invocation returns and by the thread that called it.
prepare_function_call(box, code_hash, account_id, by) ==
    [box |-> box, code_hash |-> code_hash, account_id |-> account_id, by |-> by]

Pending == [tag |-> "Pending", contract |-> NoContract]

Working == [tag |-> "Working", contract |-> NoContract]

Prepared(c) == [tag |-> "Prepared", contract |-> c]

Finished == [tag |-> "Finished", contract |-> NoContract]

VARIABLES
    map,                    \* self.map: task key -> task status
    block_accounts,         \* self.block_accounts
    block_global_contracts, \* self.block_global_contracts
    workers,                \* the closures given to rayon::spawn_fifo, per key
    main,                   \* the get_contract call in progress on the main thread
    ret,                    \* the last call that completed and what it returned
    metrics,                \* the PIPELINING_ACTIONS_* counters
    ncalls,                 \* calls made so far
    preps,                  \* history: prepare_function_call invocations per key
    gets,                   \* history: get_contract calls that found a task, per key
    deploy_seen,            \* history: receivers of submitted deploying receipts
    distributed,            \* history: ids of submitted distribution receipts
    delivered               \* history: the Boxes get_contract calls have returned

vars == <<map, block_accounts, block_global_contracts, workers, main, ret,
          metrics, ncalls, preps, gets, deploy_seen, distributed, delivered>>

Idle == [pc |-> "idle", receipt |-> 0, action_index |-> 0, code_hash |-> NoHash,
         waited |-> FALSE]

NoRet == [op |-> "none", receipt |-> 0, action_index |-> 0, code_hash |-> NoHash,
          result |-> "none", contract |-> NoContract]

NoPreps == [inline |-> 0, stolen |-> 0, worker |-> 0]

\* ReceiptPreparationPipeline::new
Init ==
    /\ map = <<>>
    /\ block_accounts = {}
    /\ block_global_contracts = {}
    /\ workers = <<>>
    /\ main = Idle
    /\ ret = NoRet
    /\ metrics = [submitted |-> 0, not_submitted |-> 0, prepared_in_main_thread |-> 0,
                  found_prepared |-> 0, waiting_time |-> 0]
    /\ ncalls = 0
    /\ preps = [k \in FunctionCallKeys |-> NoPreps]
    /\ gets = [k \in FunctionCallKeys |-> 0]
    /\ deploy_seen = {}
    /\ distributed = {}
    /\ delivered = {}

\* the Box the next prepare_function_call invocation for key k returns
NextBox(k) == <<k, preps[k].inline + preps[k].stolen + preps[k].worker + 1>>

(***************************************************************************)
(* submit                                                                  *)
(***************************************************************************)
\* the early return left out
ReceiverNeverBlocked(account_id, ba) == FALSE

\* self.block_accounts.contains(account_id), the early return of submit
ReceiverBlocked(account_id, ba) == account_id \in ba

\* only one of the two deploying actions matched
IsDeployActionDeployOnly(action) == action = "DeployContract"

\* Action::DeployContract(_) | Action::UseGlobalContract(_)
IsDeployAction(action) == action \in {"DeployContract", "UseGlobalContract"}

\* the global blockers not consulted
GlobalNeverBlocked(id, bgc) == FALSE

\* self.block_global_contracts.contains(&id)
GlobalBlocked(id, bgc) == id \in bgc

\* The code hash submit derives for a function call on account_id, or none
\* (the `continue` paths): account missing, no contract, blocked global
\* contract, failed trie lookup.
ResolveCodeHash(account_id, bgc) ==
    LET contract == AccountContractOf(account_id)
        skip == [ok |-> FALSE, code_hash |-> NoHash]
    IN IF ~AccountExists(account_id) THEN skip
       ELSE CASE contract.tag = "None" -> skip
              [] contract.tag = "Local" -> [ok |-> TRUE, code_hash |-> contract.hash]
              [] contract.tag = "Global" ->
                    IF GlobalBlocked(GlobalCodeHash(contract.hash), bgc) THEN skip
                    ELSE [ok |-> TRUE, code_hash |-> contract.hash]
              [] contract.tag = "GlobalByAccount" ->
                    IF GlobalBlocked(GlobalAccountId(contract.account), bgc) THEN skip
                    ELSE IF ~GlobalCodeExists(contract.account) THEN skip
                    ELSE [ok |-> TRUE, code_hash |-> GlobalCodeValueHash(contract.account)]

\* the insertion reporting that the account was there already
InsertReturnsContains(account_id, ba) == account_id \in ba

\* self.block_accounts.insert(account_id): true when newly inserted
InsertReturns(account_id, ba) == account_id \notin ba

\* the insertion replacing the set
InsertAccountOnly(account_id, ba) == {account_id}

\* self.block_accounts.insert(account_id): the set afterwards
InsertAccount(account_id, ba) == ba \cup {account_id}

\* every entry taken for vacant
VacantAlways(key, m) == TRUE

\* self.map.entry(key) is Entry::Vacant, not Entry::Occupied
Vacant(key, m) == key \notin DOMAIN m

\* the closure spawned for a new task: what it captured, not yet started
SpawnedWorker(code_hash, account_id) ==
    [pc |-> "queued", code_hash |-> code_hash, account_id |-> account_id,
     contract |-> NoContract]

\* The loop of submit over the actions of receipt r from index i on; st
\* carries the pipeline fields and the locals.  It ends at the first deploy
\* action (return of the insertion) or after the last action (return of
\* any_function_calls).
RECURSIVE SubmitActions(_, _, _, _)
SubmitActions(r, i, bgc, st) ==
    LET action == ActionAt(r, i)
        account_id == ReceiverOf(r)
        resolved == ResolveCodeHash(account_id, bgc)
        key == PrepareTaskKey(r, i)
    IN IF i >= Len(Receipts[r].actions)
       THEN [st EXCEPT !.result = st.any_function_calls]
       ELSE IF IsDeployAction(action)
       THEN [st EXCEPT !.result = InsertReturns(account_id, st.block_accounts),
                       !.block_accounts = InsertAccount(account_id, st.block_accounts)]
       ELSE IF action = "FunctionCall" /\ resolved.ok /\ Vacant(key, st.map)
       THEN SubmitActions(r, i + 1, bgc,
                [st EXCEPT !.map = (key :> Pending) @@ st.map,
                           !.workers = (key :> SpawnedWorker(resolved.code_hash, account_id))
                                       @@ st.workers,
                           !.submitted = st.submitted + 1,
                           !.any_function_calls = TRUE])
       ELSE SubmitActions(r, i + 1, bgc, st)

BoolResult(b) == IF b THEN "true" ELSE "false"

SubmitRet(r, b) ==
    [op |-> "submit", receipt |-> r, action_index |-> 0, code_hash |-> NoHash,
     result |-> BoolResult(b), contract |-> NoContract]

HasDeployAction(r) ==
    \E i \in DOMAIN Receipts[r].actions :
        Receipts[r].actions[i] \in {"DeployContract", "UseGlobalContract"}

\* what every submit call records in the history
SubmitHistory(r) ==
    /\ ncalls' = ncalls + 1
    /\ UNCHANGED <<gets, delivered>>
    /\ deploy_seen' = IF HasActions(r) /\ HasDeployAction(r)
                      THEN deploy_seen \cup {ReceiverOf(r)} ELSE deploy_seen
    /\ distributed' = IF Receipts[r].kind = "GlobalContractDistribution"
                      THEN distributed \cup {Receipts[r].id} ELSE distributed

CanCall == main.pc = "idle" /\ ncalls < MaxCalls

\* submit, receiver already blocked: return false
SubmitBlocked(r) ==
    /\ CanCall
    /\ ReceiverBlocked(ReceiverOf(r), block_accounts)
    /\ ret' = SubmitRet(r, FALSE)
    /\ SubmitHistory(r)
    /\ UNCHANGED <<map, block_accounts, block_global_contracts, workers, main, metrics, preps>>

\* submit of a GlobalContractDistribution receipt
SubmitGlobalContractDistribution(r) ==
    /\ CanCall
    /\ ~ReceiverBlocked(ReceiverOf(r), block_accounts)
    /\ Receipts[r].kind = "GlobalContractDistribution"
    /\ block_global_contracts' = block_global_contracts \cup {Receipts[r].id}
    /\ ret' = SubmitRet(r, FALSE)
    /\ SubmitHistory(r)
    /\ UNCHANGED <<map, block_accounts, workers, main, metrics, preps>>

\* submit of a Data or PromiseResume receipt
SubmitData(r) ==
    /\ CanCall
    /\ ~ReceiverBlocked(ReceiverOf(r), block_accounts)
    /\ Receipts[r].kind \in {"Data", "PromiseResume"}
    /\ ret' = SubmitRet(r, FALSE)
    /\ SubmitHistory(r)
    /\ UNCHANGED <<map, block_accounts, block_global_contracts, workers, main, metrics, preps>>

\* submit of an Action or PromiseYield receipt: the loop over its actions
SubmitActionReceipt(r) ==
    /\ CanCall
    /\ ~ReceiverBlocked(ReceiverOf(r), block_accounts)
    /\ HasActions(r)
    /\ LET st == SubmitActions(r, 0, block_global_contracts,
                    [map |-> map, workers |-> workers, block_accounts |-> block_accounts,
                     submitted |-> metrics.submitted, any_function_calls |-> FALSE,
                     result |-> FALSE])
       IN /\ map' = st.map
          /\ workers' = st.workers
          /\ block_accounts' = st.block_accounts
          /\ metrics' = [metrics EXCEPT !.submitted = st.submitted]
          /\ ret' = SubmitRet(r, st.result)
    /\ SubmitHistory(r)
    /\ UNCHANGED <<block_global_contracts, main, preps>>

(***************************************************************************)
(* the worker closure                                                      *)
(***************************************************************************)
\* the write reaching every task
StoreStatusAll(m, k, status) == [x \in DOMAIN m |-> status]

\* *status = .. through the guard of task k's own mutex
StoreStatus(m, k, status) == [m EXCEPT ![k] = status]

\* the closure going on whatever status it swapped out
WorkerProceedsAlways(task_status) == TRUE

\* let PrepareTaskStatus::Pending = task_status else { return }
WorkerProceeds(task_status) == task_status.tag = "Pending"

\* lock; mem::replace(status, Working); unlock: the task was Pending
WorkerTakes(k) ==
    /\ k \in DOMAIN workers
    /\ workers[k].pc = "queued"
    /\ WorkerProceeds(map[k])
    /\ map' = StoreStatus(map, k, Working)
    /\ workers' = [workers EXCEPT ![k].pc = "preparing"]
    /\ UNCHANGED <<block_accounts, block_global_contracts, main, ret, metrics, ncalls,
                   preps, gets, deploy_seen, distributed, delivered>>

\* lock; mem::replace(status, Working); unlock: the task was not Pending, return
WorkerExits(k) ==
    /\ k \in DOMAIN workers
    /\ workers[k].pc = "queued"
    /\ ~WorkerProceeds(map[k])
    /\ map' = StoreStatus(map, k, Working)
    /\ workers' = [workers EXCEPT ![k].pc = "done"]
    /\ UNCHANGED <<block_accounts, block_global_contracts, main, ret, metrics, ncalls,
                   preps, gets, deploy_seen, distributed, delivered>>

\* let contract = prepare_function_call(.., code_hash, &account_id, ..)
WorkerPrepares(k) ==
    /\ k \in DOMAIN workers
    /\ workers[k].pc = "preparing"
    /\ workers' = [workers EXCEPT ![k].pc = "prepared",
                                  ![k].contract = prepare_function_call(NextBox(k),
                                        workers[k].code_hash, workers[k].account_id,
                                        "worker")]
    /\ preps' = [preps EXCEPT ![k].worker = @ + 1]
    /\ UNCHANGED <<map, block_accounts, block_global_contracts, main, ret, metrics, ncalls,
                   gets, deploy_seen, distributed, delivered>>

\* the store without the notification
NotifyNone(k, m) == m

\* task.condvar.notify_all(): a get_contract call waiting on task k wakes up
NotifyAll(k, m) ==
    IF m.pc = "waiting" /\ PrepareTaskKey(m.receipt, m.action_index) = k
    THEN [m EXCEPT !.pc = "woken"] ELSE m

\* the closure ending without storing what it prepared
WorkerResultDropped(c) == Working

\* PrepareTaskStatus::Prepared(contract), the status the closure stores
WorkerResult(c) == Prepared(c)

\* lock; *status = Prepared(contract); notify_all; unlock
WorkerStores(k) ==
    /\ k \in DOMAIN workers
    /\ workers[k].pc = "prepared"
    /\ map' = StoreStatus(map, k, WorkerResult(workers[k].contract))
    /\ workers' = [workers EXCEPT ![k].pc = "done", ![k].contract = NoContract]
    /\ main' = NotifyAll(k, main)
    /\ UNCHANGED <<block_accounts, block_global_contracts, ret, metrics, ncalls,
                   preps, gets, deploy_seen, distributed, delivered>>

(***************************************************************************)
(* get_contract                                                            *)
(***************************************************************************)
GetRet(m, result, c) ==
    [op |-> "get_contract", receipt |-> m.receipt, action_index |-> m.action_index,
     code_hash |-> m.code_hash, result |-> result, contract |-> c]

Call(r, code_hash, action_index) ==
    [pc |-> "lock", receipt |-> r, action_index |-> action_index, code_hash |-> code_hash,
     waited |-> FALSE]

\* a call that panicked before it made a task key
MisuseRet ==
    [op |-> "get_contract", receipt |-> 0, action_index |-> 0, code_hash |-> NoHash,
     result |-> "panic", contract |-> NoContract]

\* the panics before the task lookup: a receipt without actions, an index
\* past the action list, an action that is not a function call
Misuse(r, action_index) == ActionAt(r, action_index) # "FunctionCall"

GetContractMisuse(r, code_hash, action_index) ==
    /\ CanCall
    /\ Misuse(r, action_index)
    /\ ncalls' = ncalls + 1
    /\ ret' = MisuseRet
    /\ UNCHANGED <<map, block_accounts, block_global_contracts, workers, main, metrics,
                   preps, gets, deploy_seen, distributed, delivered>>

\* the code hash get_contract prepares with on the calling thread
MainCodeHash(m) == m.code_hash

\* the inline preparation left out of the count
NotSubmittedUncounted(mt) == mt

\* PIPELINING_ACTIONS_NOT_SUBMITTED.inc_by(1)
NotSubmitted(mt) == [mt EXCEPT !.not_submitted = @ + 1]

\* self.map.get(&key) is None: prepare on the calling thread
GetContractInline(r, code_hash, action_index) ==
    LET key == PrepareTaskKey(r, action_index)
        m == Call(r, code_hash, action_index)
    IN /\ CanCall
       /\ ~Misuse(r, action_index)
       /\ key \notin DOMAIN map
       /\ ncalls' = ncalls + 1
       /\ ret' = GetRet(m, "contract",
                    prepare_function_call(NextBox(key), MainCodeHash(m),
                                          ReceiverOf(r), "main"))
       /\ preps' = [preps EXCEPT ![key].inline = @ + 1]
       /\ metrics' = NotSubmitted(metrics)
       /\ delivered' = delivered \cup {ret'.contract.box}
       /\ UNCHANGED <<map, block_accounts, block_global_contracts, workers, main,
                      gets, deploy_seen, distributed>>

\* self.map.get(&key) is Some(task): go on to task.status.lock()
GetContractFound(r, code_hash, action_index) ==
    /\ CanCall
    /\ ~Misuse(r, action_index)
    /\ PrepareTaskKey(r, action_index) \in DOMAIN map
    /\ ncalls' = ncalls + 1
    /\ main' = Call(r, code_hash, action_index)
    /\ gets' = [gets EXCEPT ![PrepareTaskKey(r, action_index)] = @ + 1]
    /\ UNCHANGED <<map, block_accounts, block_global_contracts, workers, ret, metrics,
                   preps, deploy_seen, distributed, delivered>>

MainKey == PrepareTaskKey(main.receipt, main.action_index)

\* the call holds the task's lock at the top of the loop: it has just taken
\* it, or condvar.wait has returned with it
AtLoop == main.pc \in {"lock", "woken"}

\* PIPELINING_ACTIONS_WAITING_TIME.inc_by(..) after condvar.wait returned
AfterWait(mt) == IF main.pc = "woken" THEN [mt EXCEPT !.waiting_time = @ + 1] ELSE mt

\* the steal leaving the task as it was
StolenStatusPending == Pending

\* what a call that found the task Pending leaves in the status
StolenStatus == Finished

\* PrepareTaskStatus::Pending => status = Finished, drop the guard
LoopPending ==
    /\ AtLoop
    /\ map[MainKey].tag = "Pending"
    /\ map' = StoreStatus(map, MainKey, StolenStatus)
    /\ main' = [main EXCEPT !.pc = "stolen"]
    /\ metrics' = AfterWait(metrics)
    /\ UNCHANGED <<block_accounts, block_global_contracts, workers, ret, ncalls,
                   preps, gets, deploy_seen, distributed, delivered>>

\* .. then prepare_function_call on the calling thread, return the contract
MainPrepares ==
    /\ main.pc = "stolen"
    /\ ret' = GetRet(main, "contract",
                 prepare_function_call(NextBox(MainKey), MainCodeHash(main),
                                       ReceiverOf(main.receipt), "main"))
    /\ preps' = [preps EXCEPT ![MainKey].stolen = @ + 1]
    /\ metrics' = [metrics EXCEPT !.prepared_in_main_thread = @ + 1]
    /\ main' = Idle
    /\ delivered' = delivered \cup {ret'.contract.box}
    /\ UNCHANGED <<map, block_accounts, block_global_contracts, workers, ncalls,
                   gets, deploy_seen, distributed>>

\* PrepareTaskStatus::Working => task.condvar.wait(&mut status_guard)
LoopWorking ==
    /\ AtLoop
    /\ map[MainKey].tag = "Working"
    /\ map' = StoreStatus(map, MainKey, Working)
    /\ main' = [main EXCEPT !.pc = "waiting", !.waited = TRUE]
    /\ metrics' = AfterWait(metrics)
    /\ UNCHANGED <<block_accounts, block_global_contracts, workers, ret, ncalls,
                   preps, gets, deploy_seen, distributed, delivered>>

\* the take leaving the Working of the swap behind
TakenStatusWorking == Working

\* what a call that took the Prepared value leaves in the status
TakenStatus == Finished

\* PrepareTaskStatus::Prepared(c) => status = Finished, return c
LoopPrepared ==
    /\ AtLoop
    /\ map[MainKey].tag = "Prepared"
    /\ map' = StoreStatus(map, MainKey, TakenStatus)
    /\ ret' = GetRet(main, "contract", map[MainKey].contract)
    /\ metrics' = [AfterWait(metrics) EXCEPT !.found_prepared = @ + 1]
    /\ main' = Idle
    /\ delivered' = delivered \cup {ret'.contract.box}
    /\ UNCHANGED <<block_accounts, block_global_contracts, workers, ncalls,
                   preps, gets, deploy_seen, distributed>>

\* PrepareTaskStatus::Finished => status = Finished, panic
LoopFinished ==
    /\ AtLoop
    /\ map[MainKey].tag = "Finished"
    /\ map' = StoreStatus(map, MainKey, Finished)
    /\ ret' = GetRet(main, "panic", NoContract)
    /\ metrics' = AfterWait(metrics)
    /\ main' = Idle
    /\ UNCHANGED <<block_accounts, block_global_contracts, workers, ncalls,
                   preps, gets, deploy_seen, distributed, delivered>>

(***************************************************************************)
(* The specification                                                       *)
(***************************************************************************)
MainStep ==
    \/ LoopPending
    \/ MainPrepares
    \/ LoopWorking
    \/ LoopPrepared
    \/ LoopFinished

WorkerStep ==
    \E k \in FunctionCallKeys :
        \/ WorkerTakes(k)
        \/ WorkerExits(k)
        \/ WorkerPrepares(k)
        \/ WorkerStores(k)

Next ==
    \/ \E r \in ReceiptIds : SubmitBlocked(r)
    \/ \E r \in ReceiptIds : SubmitGlobalContractDistribution(r)
    \/ \E r \in ReceiptIds : SubmitData(r)
    \/ \E r \in ReceiptIds : SubmitActionReceipt(r)
    \/ \E r \in ReceiptIds, h \in CodeHashes, i \in ActionIndices :
            GetContractMisuse(r, h, i)
    \/ \E r \in ReceiptIds, h \in CodeHashes, i \in ActionIndices :
            GetContractInline(r, h, i)
    \/ \E r \in ReceiptIds, h \in CodeHashes, i \in ActionIndices :
            GetContractFound(r, h, i)
    \/ LoopPending
    \/ MainPrepares
    \/ LoopWorking
    \/ LoopPrepared
    \/ LoopFinished
    \/ \E k \in FunctionCallKeys : WorkerTakes(k)
    \/ \E k \in FunctionCallKeys : WorkerExits(k)
    \/ \E k \in FunctionCallKeys : WorkerPrepares(k)
    \/ \E k \in FunctionCallKeys : WorkerStores(k)

Spec == Init /\ [][Next]_vars

\* Every spawned closure is run by the pool and prepare_function_call
\* terminates; a call in progress on the main thread goes on when it can.
FairSpec == Spec /\ WF_vars(WorkerStep) /\ WF_vars(MainStep)

(***************************************************************************)
(* Properties                                                              *)
(***************************************************************************)
\* the tasks a step adds to the table
NewTasks == (DOMAIN map') \ (DOMAIN map)

\* a step that is a whole submit call; ret' is what it returned
IsSubmitStep == ncalls' = ncalls + 1 /\ main' = main /\ ret'.op = "submit"

\* the last call was get_contract and it returned a contract
ReturnedContract == ret.op = "get_contract" /\ ret.result = "contract"

RetKey == PrepareTaskKey(ret.receipt, ret.action_index)

\* the global-contract id the contract binding of an account refers to
BindingId(a) ==
    LET contract == AccountContractOf(a)
    IN CASE AccountExists(a) /\ contract.tag = "Global" -> GlobalCodeHash(contract.hash)
         [] AccountExists(a) /\ contract.tag = "GlobalByAccount" -> GlobalAccountId(contract.account)
         [] OTHER -> NoGlobalId

\* the preparations made for the task of key k: by its worker, by a call that stole it
TaskPreps(k) == preps[k].stolen + preps[k].worker

\* a get_contract call has taken the Pending task of key k for itself
Stolen(k) == preps[k].stolen > 0 \/ (main.pc = "stolen" /\ MainKey = k)

\* C1 as stated: prepare_function_call is invoked at most once for a key,
\* counting the worker's invocation and those of every get_contract call,
\* the inline ones included.
C1_AtMostOncePerKey ==
    \A k \in FunctionCallKeys : preps[k].inline + TaskPreps(k) <= 1

\* C1 amended: once a key has a task, prepare_function_call is invoked at
\* most once for it, by the worker or by a get_contract call that stole the
\* task, and no longer inline; when a call stole the task the worker does
\* not invoke it.
C1_AtMostOncePerTask ==
    /\ [](\A k \in DOMAIN map :
            /\ TaskPreps(k) <= 1
            /\ Stolen(k) => preps[k].worker = 0 /\ workers[k].pc \in {"queued", "done"})
    /\ [][\A k \in DOMAIN map : preps'[k].inline = preps[k].inline]_vars

\* a task was stolen, prepared on the main thread, and its worker has come and gone
C1_Witness ==
    \E k \in DOMAIN map : preps[k].stolen = 1 /\ workers[k].pc = "done"

\* C2: every get_contract call on a function-call action in the end returns
\* a contract or panics, given that the workers run.
C2_GetContractTerminates == (main.pc # "idle") ~> (main.pc = "idle")

\* C3: a contract returned by get_contract was built with the code hash the
\* call was given.
C3_ReturnedCodeHashIsArgument ==
    ReturnedContract => ret.contract.code_hash = ret.code_hash

\* C4: a submit of a receipt with a deploying action at index k creates no
\* task at an index >= k of that receipt, and once such a receipt was
\* submitted for a receiver no submit creates a task for that receiver.
C4_DeployShadowing ==
    [][\A key \in NewTasks :
          /\ \A j \in 0..key[2] :
                ActionAt(key[1], j) \notin {"DeployContract", "UseGlobalContract"}
          /\ ReceiverOf(key[1]) \notin deploy_seen]_vars

\* a submit with a function call on an account with code made no task, after a
\* deploying receipt for that account left a task for an earlier action
C4_Witness ==
    /\ ret.op = "submit"
    /\ ~HasDeployAction(ret.receipt)
    /\ \E i \in ActionIndices :
          /\ ActionAt(ret.receipt, i) = "FunctionCall"
          /\ PrepareTaskKey(ret.receipt, i) \notin DOMAIN map
    /\ \E key \in DOMAIN map :
          /\ ReceiverOf(key[1]) = ReceiverOf(ret.receipt)
          /\ HasDeployAction(key[1])

\* C5 as stated: the table holds no task of a blocked account.
C5_NoTaskOfBlockedAccount ==
    \A key \in DOMAIN map : ReceiverOf(key[1]) \notin block_accounts

\* C5 amended: no task is created for a receipt whose receiver is in the
\* account-blocker set when submit is called; tasks made before the account
\* was blocked stay.
C5_NoTaskCreatedForBlockedAccount ==
    [][\A key \in NewTasks : ReceiverOf(key[1]) \notin block_accounts]_vars

\* submit returned false for a blocked account's function call that would resolve
C5_Witness ==
    /\ ret.op = "submit"
    /\ ret.result = "false"
    /\ ReceiverOf(ret.receipt) \in block_accounts
    /\ ResolveCodeHash(ReceiverOf(ret.receipt), block_global_contracts).ok
    /\ ActionAt(ret.receipt, 0) = "FunctionCall"
    /\ PrepareTaskKey(ret.receipt, 0) \notin DOMAIN map

\* C6 as stated: the table holds no task of an account whose binding refers
\* to a blocked global contract.
C6_NoTaskOfBlockedGlobal ==
    \A key \in DOMAIN map : BindingId(ReceiverOf(key[1])) \notin block_global_contracts

\* C6 amended: no task is created for an account whose binding refers to a
\* global contract that is in the global-blocker set when submit is called;
\* tasks made before the id was blocked stay.
C6_NoTaskCreatedForBlockedGlobal ==
    [][\A key \in NewTasks :
          BindingId(ReceiverOf(key[1])) \notin block_global_contracts]_vars

\* submit made no task for a function call on an unblocked account bound to a
\* blocked global contract
C6_Witness ==
    /\ ret.op = "submit"
    /\ ret.result = "false"
    /\ ReceiverOf(ret.receipt) \notin block_accounts
    /\ BindingId(ReceiverOf(ret.receipt)) \in block_global_contracts
    /\ \E i \in ActionIndices :
          /\ ActionAt(ret.receipt, i) = "FunctionCall"
          /\ PrepareTaskKey(ret.receipt, i) \notin DOMAIN map

\* C7: the id of every submitted GlobalContractDistribution receipt is in
\* the global-blocker set, and no task is created afterwards for an account
\* whose binding refers to it.
C7_DistributionBlocks ==
    /\ [](distributed \subseteq block_global_contracts)
    /\ [][\A key \in NewTasks : BindingId(ReceiverOf(key[1])) \notin distributed]_vars

C9_SubmitTrueForCalls ==
    [][(/\ IsSubmitStep
        /\ ReceiverOf(ret'.receipt) \notin block_accounts
        /\ \E i \in ActionIndices :
              ActionAt(ret'.receipt, i) \in {"DeployContract", "FunctionCall"})
       => ret'.result = "true"]_vars

\* C10 as stated: get_contract on a key with a task returns the contract the
\* worker prepared, not one prepared on the calling thread.
C10_TaskContractIsWorkers ==
    (ReturnedContract /\ RetKey \in DOMAIN map) => ret.contract.by = "worker"

\* C10 amended: the first get_contract call on a key with a task terminates
\* with a contract, given that the workers run: the worker's contract, and
\* no preparation on the calling thread, unless the call found the task
\* still Pending, and then its own, the worker preparing nothing.
C10_FirstCallTerminates ==
    /\ ((main.pc # "idle" /\ gets[MainKey] = 1)
          ~> (main.pc = "idle" /\ ReturnedContract /\ gets[RetKey] = 1))
    /\ []((ReturnedContract /\ RetKey \in DOMAIN map /\ gets[RetKey] = 1) =>
            \/ /\ ret.contract.by = "worker"
               /\ preps[RetKey].worker = 1
               /\ preps[RetKey].stolen = 0
            \/ /\ ret.contract.by = "main"
               /\ preps[RetKey].worker = 0
               /\ preps[RetKey].stolen = 1)

\* the first call on a key waited for the worker and returned its contract
C10_Witness ==
    /\ ReturnedContract
    /\ RetKey \in DOMAIN map
    /\ gets[RetKey] = 1
    /\ metrics.waiting_time > 0
    /\ ret.contract.by = "worker"

\* the call in progress is on a key whose task an earlier call took or stole
SecondCall == main.pc # "idle" /\ gets[MainKey] >= 2

\* C11: a get_contract call on a key whose task an earlier call consumed
\* panics: it does not wait, does not prepare and does not return a contract.
C11_SecondCallPanics ==
    /\ SecondCall => main.pc \in {"lock"}
    /\ (/\ main.pc = "idle"
        /\ ret.op = "get_contract"
        /\ ret.receipt # 0
        /\ RetKey \in DOMAIN map
        /\ gets[RetKey] >= 2) => ret.result = "panic"

\* C12: a submit leaves every task the table already holds as it is, with
\* its status and its one worker, and counts as submitted only the tasks it
\* adds; the workers are those of the tasks.
C12_ResubmitIsNoOp ==
    /\ [](DOMAIN workers = DOMAIN map)
    /\ [][IsSubmitStep =>
            /\ \A key \in DOMAIN map :
                  /\ key \in DOMAIN map'
                  /\ map'[key] = map[key]
                  /\ workers'[key] = workers[key]
            /\ metrics'.submitted = metrics.submitted + Cardinality(NewTasks)]_vars

\* a receipt was submitted again after the worker had taken its task: the
\* call returned false and the task is not Pending
C12_Witness ==
    /\ ret.op = "submit"
    /\ ret.result = "false"
    /\ ReceiverOf(ret.receipt) \notin block_accounts
    /\ \E i \in ActionIndices :
          /\ PrepareTaskKey(ret.receipt, i) \in DOMAIN map
          /\ map[PrepareTaskKey(ret.receipt, i)].tag # "Pending"
    /\ metrics.submitted = Cardinality(DOMAIN map)

\* C13: no step takes an account out of the account-blocker set or an id
\* out of the global-blocker set.
C13_BlockersGrow ==
    [][/\ block_accounts \subseteq block_accounts'
       /\ block_global_contracts \subseteq block_global_contracts']_vars

\* an account and an id are blocked and a get_contract call has returned since
C13_Witness ==
    /\ block_accounts # {}
    /\ block_global_contracts # {}
    /\ ret.op = "get_contract"

\* C14: a task that is Working is in the end taken out of Working, to
\* Prepared or to Finished, given that the workers run.
C14_WorkingEnds ==
    \A key \in FunctionCallKeys :
        (key \in DOMAIN map /\ map[key].tag = "Working")
            ~> (key \in DOMAIN map /\ map[key].tag \in {"Prepared", "Finished"})

\* a step in which a get_contract call returns a contract
IsReturnStep ==
    /\ ret'.op = "get_contract"
    /\ ret'.result = "contract"
    /\ \/ ncalls' = ncalls + 1 /\ main' = main
       \/ main.pc # "idle" /\ main'.pc = "idle"

\* a step in which a get_contract call takes a Prepared value
IsTakeStep == IsReturnStep /\ AtLoop /\ map[MainKey].tag = "Prepared"

\* C15: the Box a get_contract call returns was returned by no call before,
\* and a call that takes a task's Prepared value leaves the task Finished.
C15_DeliveredOnce ==
    [][/\ IsReturnStep => ret'.contract.box \notin delivered
       /\ IsTakeStep => map'[MainKey] = Finished /\ ret'.contract = map[MainKey].contract]_vars

\* a Prepared value was taken and a later call on the key has come back
C15_Witness ==
    \E key \in DOMAIN map :
        /\ preps[key].worker = 1
        /\ <<key, 1>> \in delivered
        /\ gets[key] >= 2
        /\ main.pc = "idle"

\* the worker of key k has gone on past its test of the status it swapped out
WorkerCommitted(k) == workers[k].pc \in {"preparing", "prepared"} \/ preps[k].worker > 0

\* C16: the worker and a get_contract call never both commit to preparing a
\* task: each goes on to prepare_function_call only after its swap found the
\* task Pending, and at most one of them finds it so.
C16_OneCommits ==
    /\ [](\A key \in DOMAIN map : ~(WorkerCommitted(key) /\ Stolen(key)))
    /\ [][\A key \in DOMAIN map :
            /\ (workers[key].pc = "queued" /\ workers'[key].pc = "preparing")
                  => map[key].tag = "Pending"
            /\ preps'[key].worker > preps[key].worker => workers[key].pc = "preparing"
            /\ (main.pc # "stolen" /\ main'.pc = "stolen" /\ MainKey = key)
                  => map[key].tag = "Pending"
            /\ preps'[key].stolen > preps[key].stolen
                  => main.pc = "stolen" /\ MainKey = key]_vars

\* the worker came while the call that stole its task was still preparing, and left
C16_Witness ==
    /\ main.pc = "stolen"
    /\ workers[MainKey].pc = "done"
    /\ preps[MainKey].worker = 0

\* the status changes of the task state machine
StatusChanges ==
    {<<"Pending", "Working">>, <<"Working", "Prepared">>, <<"Prepared", "Finished">>,
     <<"Pending", "Finished">>}

\* C17: a task's status changes only along Pending -> Working -> Prepared ->
\* Finished or Pending -> Finished; once Finished it stays Finished.
C17_FinishedTerminal ==
    [][\A key \in DOMAIN map :
          \/ map'[key].tag = map[key].tag
          \/ <<map[key].tag, map'[key].tag>> \in StatusChanges]_vars

\* C18: a call that waits on a task its worker is preparing is woken by the
\* worker's store, finds the value, returns the worker's contract and leaves
\* the task Finished; it is never left waiting on a Prepared task.
C18_WaitThenTake ==
    /\ [](main.pc = "woken" => map[MainKey].tag = "Prepared")
    /\ [](main.pc = "waiting" => map[MainKey].tag # "Prepared")
    /\ ((main.pc = "waiting" /\ workers[MainKey].pc \in {"preparing", "prepared"})
          ~> (/\ main.pc = "idle"
              /\ ReturnedContract
              /\ RetKey \in DOMAIN map
              /\ ret.contract.by = "worker"
              /\ ret.contract.code_hash = workers[RetKey].code_hash
              /\ map[RetKey] = Finished))

\* the worker has stored and notified, the waiting call is about to look again
C18_Witness ==
    /\ main.pc = "woken"
    /\ map[MainKey].tag = "Prepared"
    /\ workers[MainKey].pc = "done"

IsGetContractStep ==
    \/ ncalls' = ncalls + 1 /\ ~IsSubmitStep
    \/ main.pc \in {"lock", "woken", "stolen"} /\ main' # main

\* the key of the call that takes the step
StepKey ==
    IF main.pc = "idle" THEN PrepareTaskKey(main'.receipt, main'.action_index) ELSE MainKey

\* C20: a step of get_contract leaves the keys of the table and both blocker
\* sets as they are, and the status of every task but the one of its key.
C20_GetContractFrame ==
    [][IsGetContractStep =>
          /\ DOMAIN map' = DOMAIN map
          /\ block_accounts' = block_accounts
          /\ block_global_contracts' = block_global_contracts
          /\ \A key \in DOMAIN map \ {StepKey} : map'[key] = map[key]]_vars

\* a call took its task's value while another task was Pending or in work
C20_Witness ==
    /\ ReturnedContract
    /\ RetKey \in DOMAIN map
    /\ map[RetKey].tag = "Finished"
    /\ \E key \in DOMAIN map \ {RetKey} : map[key].tag \in {"Pending", "Working"}

\* the entry of a get_contract call that got past the panics on its arguments
IsGetContractEntry ==
    /\ ncalls' = ncalls + 1
    /\ ~IsSubmitStep
    /\ main' # main \/ ret' # MisuseRet

\* the key of the call that enters
EntryKey ==
    IF main' # main THEN PrepareTaskKey(main'.receipt, main'.action_index)
                    ELSE PrepareTaskKey(ret'.receipt, ret'.action_index)

\* C21: a get_contract call whose key has no task prepares the contract on
\* the calling thread with the caller's code hash, adds one to the
\* not-submitted counter and to no other, returns without waiting on a
\* worker, and creates no task.
C21_NoTaskPreparesInline ==
    [][(IsGetContractEntry /\ EntryKey \notin DOMAIN map) =>
          /\ main' = main
          /\ ret'.op = "get_contract"
          /\ ret'.result = "contract"
          /\ ret'.contract.by = "main"
          /\ ret'.contract.code_hash = ret'.code_hash
          /\ ret'.contract.account_id = ReceiverOf(ret'.receipt)
          /\ preps' = [preps EXCEPT ![EntryKey].inline = @ + 1]
          /\ metrics' = [metrics EXCEPT !.not_submitted = @ + 1]
          /\ UNCHANGED <<map, workers, block_accounts, block_global_contracts>>]_vars

\* submit declined the function call of a blocked account, the call prepared it inline
C21_Witness ==
    /\ ReturnedContract
    /\ RetKey \notin DOMAIN map
    /\ ReceiverOf(ret.receipt) \in block_accounts
    /\ ret.contract.by = "main"
    /\ metrics.not_submitted = 1
    /\ metrics.submitted > 0

\* a step of the closure of task k
IsWorkerStep(k) == k \in DOMAIN workers /\ k \in DOMAIN workers' /\ workers'[k] # workers[k]

\* C22: a task that no get_contract call touches is taken by its worker,
\* becomes Prepared with the worker's contract and stays so: time and again
\* every task of the table has been asked for by a call or holds its
\* worker's contract, and a Prepared task no call has asked for keeps its
\* status.  A step of a worker changes only its own task, never the keys of
\* the table or the blocker sets.
C22_UntouchedTaskPrepared ==
    /\ []<>(\A key \in DOMAIN map :
               \/ gets[key] > 0
               \/ /\ map[key].tag = "Prepared"
                  /\ map[key].contract.by = "worker"
                  /\ preps[key].worker = 1
                  /\ preps[key].stolen = 0)
    /\ [][\A key \in DOMAIN map :
            (map[key].tag = "Prepared" /\ gets'[key] = 0) => map'[key] = map[key]]_vars
    /\ [][\A key \in DOMAIN workers :
            IsWorkerStep(key) =>
               /\ DOMAIN map' = DOMAIN map
               /\ block_accounts' = block_accounts
               /\ block_global_contracts' = block_global_contracts
               /\ \A other \in DOMAIN map \ {key} :
                     map'[other] = map[other] /\ workers'[other] = workers[other]]_vars

\* the worker has stored its contract, no call came for it, calls for
\* another key came and went
C22_Witness ==
    /\ ret.op = "get_contract"
    /\ main.pc = "idle"
    /\ \E key \in DOMAIN map :
          /\ map[key].tag = "Prepared"
          /\ gets[key] = 0
          /\ workers[key].pc = "done"
          /\ key # RetKey

\* the code hash of the contract account a is bound to in the snapshot, given
\* the blocked ids bgc; NoHash where there is none to prepare
BindingCodeHash(a, bgc) ==
    LET binding == AccountContractOf(a)
    IN IF ~AccountExists(a) THEN NoHash
       ELSE IF binding.tag = "Local" THEN binding.hash
       ELSE IF binding.tag = "Global"
       THEN IF GlobalCodeHash(binding.hash) \in bgc THEN NoHash ELSE binding.hash
       ELSE IF binding.tag = "GlobalByAccount"
       THEN IF GlobalAccountId(binding.account) \in bgc \/ ~GlobalCodeExists(binding.account)
            THEN NoHash ELSE GlobalCodeValueHash(binding.account)
       ELSE NoHash

\* C23: every task submit creates is for a function call of the submitted
\* receipt and its worker is given the code hash of the receiver's binding:
\* the local hash, the global hash when that id is not blocked, the value
\* hash of the trie entry of a global account id that is not blocked; submit
\* creates no task when the account is missing, has no contract, the id is
\* blocked or the trie has no entry.
C23_WorkerCodeHash ==
    [][IsSubmitStep =>
          LET account_id == ReceiverOf(ret'.receipt)
              code_hash == BindingCodeHash(account_id, block_global_contracts)
          IN /\ \A key \in NewTasks :
                   /\ key[1] = ret'.receipt
                   /\ ActionAt(key[1], key[2]) = "FunctionCall"
                   /\ code_hash # NoHash
                   /\ workers'[key].code_hash = code_hash
                   /\ workers'[key].account_id = account_id
             /\ code_hash = NoHash => NewTasks = {}]_vars

\* a task for carol, bound by account id to a global contract, and none for
\* bob, whose global contract was blocked before his receipt came
C23_Witness ==
    /\ ret.op = "submit"
    /\ ReceiverOf(ret.receipt) = "bob"
    /\ HasActions(ret.receipt)
    /\ GlobalCodeHash(2) \in block_global_contracts
    /\ \A key \in DOMAIN map : key[1] # ret.receipt
    /\ \E key \in DOMAIN map :
          /\ ReceiverOf(key[1]) = "carol"
          /\ workers[key].code_hash = GlobalCodeValueHash("gacc")

\* what a step adds to the three counters of a call that found its task
Recorded ==
    [prepared_in_main_thread |->
         metrics'.prepared_in_main_thread - metrics.prepared_in_main_thread,
     found_prepared |-> metrics'.found_prepared - metrics.found_prepared,
     waiting_time |-> metrics'.waiting_time - metrics.waiting_time]

RecordedOnly(counter) ==
    Recorded = [[prepared_in_main_thread |-> 0, found_prepared |-> 0, waiting_time |-> 0]
                   EXCEPT ![counter] = 1]

\* C24: a get_contract call that found a task records one of the three
\* counters: prepared-in-main-thread when it stole the Pending task,
\* found-prepared when it found the value Prepared at once, waiting-time, and
\* not found-prepared, when it had to wait.
C24_OneMetricPerCall ==
    [][(main.pc \in {"lock", "woken", "stolen"} /\ main'.pc = "idle"
            /\ ret'.result = "contract") =>
          /\ main.pc = "stolen" => RecordedOnly("prepared_in_main_thread")
          /\ main.pc = "lock" => RecordedOnly("found_prepared")
          /\ main.pc = "woken" => RecordedOnly("waiting_time")]_vars

====
